---- MODULE Spec2Model ----
(***************************************************************************)
(* A model of the notebook MSTC_RNN_1_TF1Py3.ipynb: the synthetic data     *)
(* generator gen_data, the truncated-backprop batcher gen_batch and the    *)
(* training loop train_network.                                            *)
(*                                                                         *)
(* Probabilities are kept in quarters (0.25 = 1, 0.5 = 2, 1.0 = 4): every  *)
(* threshold the generator computes is a multiple of 0.25.                  *)
(***************************************************************************)
EXTENDS Integers, Sequences, FiniteSets

\* ---------------------------------------------------------------- bounds
MaxSize == 9          \* largest size passed to gen_data
MaxLen == 8           \* longest raw sequence passed to gen_batch
MaxBatch == 3         \* largest batch_size passed to gen_batch
MaxNumSteps == 3      \* largest num_steps passed to gen_batch
MaxEpochs == 2        \* largest num_epochs passed to train_network
MaxStateVal == 2      \* the recurrent states are the values 0 .. MaxStateVal

\* ------------------------------------------------------ program constants
ThresholdBase == 2    \* threshold = 0.5
ThresholdUp   == 2    \* threshold += 0.5
ThresholdDown == 1    \* threshold -= 0.25
LagNear       == 3    \* X[i-3]
LagFar        == 8    \* X[i-8]
RandHigh      == 4    \* np.random.rand() is a value of [0, 1.0)
DefaultSize   == 1000000  \* def gen_data(size=1000000)
GlobalNumSteps == 5   \* num_steps = 5
GlobalBatchSize == 200    \* batch_size = 200
GlobalStateSize == 8  \* state_size = 8
DefaultStateSize == 4 \* def train_network(..., state_size=4, ...)
ReportEvery   == 100  \* if step % 100 == 0 and step > 0
LossDivisor   == 100  \* training_loss/100
ZeroState     == 0    \* np.zeros((batch_size, state_size))

VARIABLES
    pc,          \* which function runs and where it stands
    size,        \* gen_data: the argument
    X,           \* gen_data: the input bits
    Y,           \* gen_data: the list Y built so far
    i,           \* gen_data: loop variable
    threshold,   \* gen_data: the local threshold of the last iteration
    near_pos,    \* gen_data: the position of X that X[i-3] read last
    far_pos,     \* gen_data: the position of X that X[i-8] read last
    raw_x,       \* gen_batch: raw_data[0]
    raw_y,       \* gen_batch: raw_data[1]
    batch_size,  \* gen_batch: the argument
    num_steps,   \* gen_batch: the argument
    data_x,      \* gen_batch: the data matrix of x, a sequence of rows
    data_y,      \* gen_batch: the data matrix of y
    bi,          \* gen_batch: loop variable i of the yielding loop
    x,           \* gen_batch: the x of the batch yielded last
    y,           \* gen_batch: the y of the batch yielded last
    x_elems,     \* gen_batch: number of elements of all x yielded so far
    y_elems,     \* gen_batch: number of elements of all y yielded so far
    g_num_steps,     \* the global num_steps the graph is built with
    arg_num_epochs,  \* train_network: the argument num_epochs
    arg_num_steps,   \* train_network: the argument num_steps
    arg_state_size,  \* train_network: the argument state_size
    idx,             \* train_network: index of the epoch
    step,            \* train_network: index of the step within the epoch
    training_loss,   \* train_network: the steps whose total_loss it sums
    training_state,  \* train_network: the recurrent state carried along
    training_losses, \* train_network: the list that is returned
    fed_state,       \* the init_state fed to the last sess.run
    final_state      \* the final_state the last sess.run returned

genDataVars == <<size, X, Y, i, threshold, near_pos, far_pos>>

genBatchVars == <<raw_x, raw_y, batch_size, num_steps, data_x, data_y, bi, x, y,
                  x_elems, y_elems>>

trainVars == <<g_num_steps, arg_num_epochs, arg_num_steps, arg_state_size, idx, step,
               training_loss, training_state, training_losses, fed_state, final_state>>

vars == <<pc, genDataVars, genBatchVars, trainVars>>

Bit == {0, 1}

\* ------------------------------------------------------------- helpers
\* PyInRange refusing the index -n
PyInRangeStrict(s, j) == (-Len(s) < j) /\ (j < Len(s))

\* Python sequence indexing: a negative index counts from the end, an
\* index outside -n .. n-1 raises IndexError.
PyInRange(s, j) == (-Len(s) <= j) /\ (j < Len(s))

PyPos(s, j) == IF j < 0 THEN j + Len(s) ELSE j

PyGet(s, j) == s[PyPos(s, j) + 1]

\* A draw of np.random.rand(): a value r of [0, 1).  With the thresholds
\* multiples of 0.25 a draw is described by the quarter [cell/4, (cell+1)/4)
\* it lies in and by whether it is the left end point of it (edge).
Draw == [cell : 0 .. (RandHigh - 1), edge : BOOLEAN]

\* r > th, th in quarters
DrawGreater(d, th) == IF d.edge THEN d.cell > th ELSE d.cell >= th

\* ThresholdOf with the two lags exchanged: X[i-8] raises, X[i-3] lowers
ThresholdOfSwapped(near, far) ==
    ThresholdBase + (IF far = 1 THEN ThresholdUp ELSE 0)
                  - (IF near = 1 THEN ThresholdDown ELSE 0)

\* ThresholdOf raising by 0.25 instead of 0.5
ThresholdOfSmallRise(near, far) ==
    ThresholdBase + (IF near = 1 THEN ThresholdDown ELSE 0)
                  - (IF far = 1 THEN ThresholdDown ELSE 0)

\* threshold = 0.5; += 0.5 if X[i-3] == 1; -= 0.25 if X[i-8] == 1
ThresholdOf(near, far) ==
    ThresholdBase + (IF near = 1 THEN ThresholdUp ELSE 0)
                  - (IF far = 1 THEN ThresholdDown ELSE 0)

\* LabelOf with the two branches exchanged
LabelOfFlipped(d, th) == IF DrawGreater(d, th) THEN 1 ELSE 0

\* if np.random.rand() > threshold: 0 else: 1
LabelOf(d, th) == IF DrawGreater(d, th) THEN 0 ELSE 1

\* ------------------------------------------------------------- gen_data
Init ==
    /\ pc = "idle"
    /\ size = 0
    /\ X = << >>
    /\ Y = << >>
    /\ i = 0
    /\ threshold = ThresholdBase
    /\ near_pos = 0
    /\ far_pos = 0
    /\ raw_x = << >>
    /\ raw_y = << >>
    /\ batch_size = 0
    /\ num_steps = 0
    /\ data_x = << >>
    /\ data_y = << >>
    /\ bi = 0
    /\ x = << >>
    /\ y = << >>
    /\ x_elems = 0
    /\ y_elems = 0
    /\ g_num_steps = GlobalNumSteps
    /\ arg_num_epochs = 0
    /\ arg_num_steps = GlobalNumSteps
    /\ arg_state_size = GlobalStateSize
    /\ idx = 0
    /\ step = 0
    /\ training_loss = {}
    /\ training_state = ZeroState
    /\ training_losses = << >>
    /\ fed_state = ZeroState
    /\ final_state = ZeroState

\* gen_data(size): X = np.random.choice(2, size); Y = []
GenDataCall ==
    /\ pc = "idle"
    /\ \E n \in 0 .. MaxSize :
          /\ size' = n
          /\ \E bits \in [1 .. n -> Bit] : X' = bits
    /\ Y' = << >>
    /\ i' = 0
    /\ pc' = "gen_data"
    /\ UNCHANGED <<threshold, near_pos, far_pos, genBatchVars, trainVars>>

\* InRange stopping one short: range(n - 1)
InRangeShort(k, n) == (0 <= k) /\ (k < n - 1)

\* k in range(n)
InRange(k, n) == (0 <= k) /\ (k < n)

\* one iteration of "for i in range(size)"
GenDataStep ==
    /\ pc = "gen_data"
    /\ InRange(i, size)
    /\ IF ~PyInRange(X, i - LagNear)
       THEN \* X[i-3] raises IndexError
            /\ pc' = "gen_data_IndexError"
            /\ threshold' = ThresholdBase
            /\ UNCHANGED <<Y, i, near_pos, far_pos>>
       ELSE IF ~PyInRange(X, i - LagFar)
       THEN \* X[i-8] raises IndexError
            /\ pc' = "gen_data_IndexError"
            /\ threshold' = ThresholdOf(PyGet(X, i - LagNear), 0)
            /\ near_pos' = PyPos(X, i - LagNear)
            /\ UNCHANGED <<Y, i, far_pos>>
       ELSE /\ near_pos' = PyPos(X, i - LagNear)
            /\ far_pos' = PyPos(X, i - LagFar)
            /\ threshold' = ThresholdOf(PyGet(X, i - LagNear), PyGet(X, i - LagFar))
            /\ \E d \in Draw : Y' = Append(Y, LabelOf(d, threshold'))
            /\ i' = i + 1
            /\ pc' = pc
    /\ UNCHANGED <<size, X, genBatchVars, trainVars>>

\* return X, np.array(Y)
GenDataReturn ==
    /\ pc = "gen_data"
    /\ ~InRange(i, size)
    /\ pc' = "gen_data_returned"
    /\ UNCHANGED <<genDataVars, genBatchVars, trainVars>>

\* ------------------------------------------------------------ gen_batch
\* s[lo:hi] for 0 <= lo, 0 <= hi: the slice is cut at the end of s
PySlice(s, lo, hi) == SubSeq(s, lo + 1, IF hi < Len(s) THEN hi ELSE Len(s))

\* m[:, lo:hi] of a matrix kept as a sequence of rows
ColSlice(m, lo, hi) == [r \in 1 .. Len(m) |-> PySlice(m[r], lo, hi)]

\* number of elements of a matrix kept as a sequence of rows
RECURSIVE NumElems(_)
NumElems(m) == IF m = << >> THEN 0 ELSE Len(Head(m)) + NumElems(Tail(m))

\* batch_partition_length = data_length // batch_size
BatchPartitionLength(data_length, bsz) == data_length \div bsz

\* EpochSize rounding up: a last, partial window counts as a batch
EpochSizeRoundedUp(data_length, bsz, nst) ==
    (BatchPartitionLength(data_length, bsz) + nst - 1) \div nst

\* EpochSize without the division by batch_size
EpochSizeOfWholeData(data_length, bsz, nst) == data_length \div nst

\* epoch_size = batch_partition_length // num_steps
EpochSize(data_length, bsz, nst) == BatchPartitionLength(data_length, bsz) \div nst

\* DataMatrix filling every row from the first partition
DataMatrixFirstPartition(raw, bsz) ==
    LET bpl == BatchPartitionLength(Len(raw), bsz)
    IN  [r \in 1 .. bsz |-> PySlice(raw, 0, bpl)]

\* data[i] = raw[batch_partition_length * i : batch_partition_length * (i + 1)]
DataMatrix(raw, bsz) ==
    LET bpl == BatchPartitionLength(Len(raw), bsz)
    IN  [r \in 1 .. bsz |-> PySlice(raw, bpl * (r - 1), bpl * r)]

\* BatchOf with windows that advance by one column instead of num_steps
BatchOfSliding(data, k, nst) == ColSlice(data, k, k + nst)

\* data[:, i * num_steps:(i + 1) * num_steps]
BatchOf(data, k, nst) == ColSlice(data, k * nst, (k + 1) * nst)

Complement(s) == [j \in 1 .. Len(s) |-> 1 - s[j]]

Reverse(s) == [j \in 1 .. Len(s) |-> s[Len(s) + 1 - j]]

\* The raw pairs gen_batch is called with: every bit sequence as raw_x, and as
\* raw_y a bit sequence of the same length that is a function of raw_x.
RawLabels(rx) == {Complement(rx), Reverse(rx)}

\* gen_batch(raw_data, batch_size, num_steps) up to the yielding loop
GenBatchCall ==
    /\ pc = "idle"
    /\ \E n \in 0 .. MaxLen :
          \E rx \in [1 .. n -> Bit] :
             \E ry \in RawLabels(rx) :
                /\ raw_x' = rx
                /\ raw_y' = ry
    /\ \E b \in 0 .. MaxBatch : batch_size' = b
    /\ \E s \in 0 .. MaxNumSteps : num_steps' = s
    /\ IF batch_size' = 0 \/ num_steps' = 0
       THEN \* data_length // batch_size or batch_partition_length // num_steps
            /\ pc' = "gen_batch_ZeroDivisionError"
            /\ UNCHANGED <<data_x, data_y>>
       ELSE /\ data_x' = DataMatrix(raw_x', batch_size')
            /\ data_y' = DataMatrix(raw_y', batch_size')
            /\ pc' = "gen_batch"
    /\ bi' = 0
    /\ x' = << >>
    /\ y' = << >>
    /\ x_elems' = 0
    /\ y_elems' = 0
    /\ UNCHANGED <<genDataVars, trainVars>>

\* one iteration of "for i in range(epoch_size)": yield (x, y)
GenBatchYield ==
    /\ pc = "gen_batch"
    /\ bi < EpochSize(Len(raw_x), batch_size, num_steps)
    /\ x' = BatchOf(data_x, bi, num_steps)
    /\ y' = BatchOf(data_y, bi, num_steps)
    /\ x_elems' = x_elems + NumElems(x')
    /\ y_elems' = y_elems + NumElems(y')
    /\ bi' = bi + 1
    /\ UNCHANGED <<pc, raw_x, raw_y, batch_size, num_steps, data_x, data_y, genDataVars,
                   trainVars>>

\* the loop is over: the generator is exhausted
GenBatchStop ==
    /\ pc = "gen_batch"
    /\ bi >= EpochSize(Len(raw_x), batch_size, num_steps)
    /\ pc' = "gen_batch_exhausted"
    /\ UNCHANGED <<genDataVars, genBatchVars, trainVars>>

\* -------------------------------------------------------- train_network
\* The hyperparameters the graph cells are run with: the notebook's num_steps
\* and the values it invites trying, which give epochs of 1000, 200, 102, 100
\* and 0 steps.
GraphNumSteps == {GlobalNumSteps, 25, 49, 50, 5001}

\* The values of the recurrent state: ZeroState is the all-zeros matrix.
StateVals == 0 .. MaxStateVal

\* The config and graph cells: placeholders x, y of shape
\* [batch_size, num_steps], init_state of shape [batch_size, state_size].
BuildGraph ==
    /\ pc = "idle"
    /\ \E ns \in GraphNumSteps : g_num_steps' = ns
    /\ pc' = "graph_built"
    /\ UNCHANGED <<genDataVars, genBatchVars, arg_num_epochs, arg_num_steps,
                   arg_state_size, idx, step, training_loss, training_state,
                   training_losses, fed_state, final_state>>

\* train_network(num_epochs, num_steps, state_size): training_losses = []
TrainCall ==
    /\ pc = "graph_built"
    /\ \E ne \in 0 .. MaxEpochs : arg_num_epochs' = ne
    /\ \E ns \in {0, g_num_steps, GlobalNumSteps + 1} : arg_num_steps' = ns
    /\ \E ss \in {GlobalStateSize, DefaultStateSize} : arg_state_size' = ss
    /\ training_losses' = << >>
    /\ idx' = 0
    /\ pc' = "train_network"
    /\ UNCHANGED <<genDataVars, genBatchVars, g_num_steps, step, training_loss,
                   training_state, fed_state, final_state>>

\* EpochStartState keeping the state of the epoch before
EpochStartStateKept(carried) == carried

\* the state every epoch starts from: np.zeros((batch_size, state_size))
EpochStartState(carried) == ZeroState

\* for idx, epoch in enumerate(gen_epochs(num_epochs, num_steps)):
\*     training_loss = 0; training_state = np.zeros(...)
TrainEpochStart ==
    /\ pc = "train_network"
    /\ idx < arg_num_epochs
    /\ training_loss' = {}
    /\ training_state' = EpochStartState(training_state)
    /\ step' = 0
    /\ pc' = "train_epoch"
    /\ UNCHANGED <<genDataVars, genBatchVars, g_num_steps, arg_num_epochs,
                   arg_num_steps, arg_state_size, idx, training_losses, fed_state,
                   final_state>>

\* the number of batches of gen_batch(gen_data(), batch_size, num_steps)
TrainEpochSize == EpochSize(DefaultSize, GlobalBatchSize, arg_num_steps)

\* FeedShapesMatch without the check of the state fed for init_state
FeedShapesMatchStepsOnly == arg_num_steps = g_num_steps

\* feed_dict={x:X, y:Y, init_state:training_state}: a fed value must have the
\* shape of the tensor it is fed for
FeedShapesMatch ==
    /\ arg_num_steps = g_num_steps
    /\ arg_state_size = GlobalStateSize

\* ReportDue without "and step > 0"
ReportDueAtZero(s) == (s % ReportEvery = 0)

\* if step % 100 == 0 and step > 0
ReportDue(s) == (s % ReportEvery = 0) /\ (s > 0)

\* the state carried to the next step: the final_state sess.run returned
CarriedState(fed, returned) == returned

\* one iteration of "for step, (X, Y) in enumerate(epoch)"
TrainStep ==
    /\ pc = "train_epoch"
    /\ IF arg_num_steps = 0
       THEN \* gen_batch: batch_partition_length // num_steps
            /\ pc' = "train_network_ZeroDivisionError"
            /\ UNCHANGED <<step, training_loss, training_state, training_losses,
                           fed_state, final_state>>
       ELSE /\ step < TrainEpochSize
            /\ IF ~FeedShapesMatch
               THEN \* sess.run raises ValueError
                    /\ pc' = "train_network_ValueError"
                    /\ UNCHANGED <<step, training_loss, training_state,
                                   training_losses, fed_state, final_state>>
               ELSE /\ fed_state' = training_state
                    /\ \E fs \in StateVals : final_state' = fs
                    /\ training_state' = CarriedState(fed_state', final_state')
                    /\ LET summed == training_loss \cup {step}
                       IN  IF ReportDue(step)
                           THEN /\ training_losses' =
                                      Append(training_losses,
                                             [sum |-> summed, div |-> LossDivisor])
                                /\ training_loss' = {}
                           ELSE /\ training_loss' = summed
                                /\ UNCHANGED training_losses
                    /\ step' = step + 1
                    /\ pc' = pc
    /\ UNCHANGED <<genDataVars, genBatchVars, g_num_steps, arg_num_epochs,
                   arg_num_steps, arg_state_size, idx>>

\* the epoch's generator is exhausted
TrainEpochEnd ==
    /\ pc = "train_epoch"
    /\ arg_num_steps # 0
    /\ step >= TrainEpochSize
    /\ idx' = idx + 1
    /\ pc' = "train_network"
    /\ UNCHANGED <<genDataVars, genBatchVars, g_num_steps, arg_num_epochs,
                   arg_num_steps, arg_state_size, step, training_loss,
                   training_state, training_losses, fed_state, final_state>>

\* return training_losses
TrainReturn ==
    /\ pc = "train_network"
    /\ idx >= arg_num_epochs
    /\ pc' = "train_network_returned"
    /\ UNCHANGED <<genDataVars, genBatchVars, trainVars>>

Next ==
    \/ GenDataCall
    \/ GenDataStep
    \/ GenDataReturn
    \/ GenBatchCall
    \/ GenBatchYield
    \/ GenBatchStop
    \/ BuildGraph
    \/ TrainCall
    \/ TrainEpochStart
    \/ TrainStep
    \/ TrainEpochEnd
    \/ TrainReturn

Spec == Init /\ [][Next]_vars

\* ================================================================ gen_data
\* Where gen_data has run at least one iteration, t is the position of Y the
\* last iteration filled.
GenDataRan == (pc \in {"gen_data", "gen_data_returned"}) /\ (i > 0)

\* The thresholds in quarters for (X[t-3], X[t-8]): 0.5, 1.0, 0.25, 0.75
TableThreshold(a, b) ==
    CASE a = 0 /\ b = 0 -> 2
      [] a = 1 /\ b = 0 -> 4
      [] a = 0 /\ b = 1 -> 1
      [] a = 1 /\ b = 1 -> 3

\* The probability, in quarters, that a draw uniform over [0, 1) labels a
\* position 1 under threshold th: the number of quarters of [0, 1) whose
\* inner points do (the four end points have probability 0).
ProbOne(th) ==
    Cardinality({c \in 0 .. (RandHigh - 1) : LabelOf([cell |-> c, edge |-> FALSE], th) = 1})

\* C1: for every position t gen_data fills, the threshold is 0.5 raised by 0.5
\* when X[t-3] is 1 and lowered by 0.25 when X[t-8] is 1, so it is one of 0.5,
\* 1.0, 0.25, 0.75 as the table says, and Y[t] is 1 with that probability.
C1_ThresholdRule ==
    GenDataRan =>
        LET t == i - 1
        IN  /\ threshold = TableThreshold(PyGet(X, t - 3), PyGet(X, t - 8))
            /\ threshold \in {1, 2, 3, 4}
            /\ ProbOne(threshold) = threshold
            /\ Y[t + 1] \in {LabelOf(d, threshold) : d \in Draw}

\* C1 witness: gen_data(9) has returned, position 8 read X[5] = 1 and X[0] = 1,
\* had threshold 0.75 and was labelled 0.
C1_Witness ==
    /\ pc = "gen_data_returned"
    /\ size = 9
    /\ X[6] = 1 /\ X[1] = 1
    /\ threshold = 3
    /\ Y[9] = 0

\* C3: the two elements of X an iteration reads lie before the position t it
\* fills.
C3_LagsAreEarlier ==
    GenDataRan => (near_pos < i - 1) /\ (far_pos < i - 1)

\* C4: where X[t-3] is 1 and X[t-8] is 0 the label Y[t] is 1, whatever was drawn.
C4_CertainOne ==
    (pc \in {"gen_data", "gen_data_returned"}) =>
        \A t \in 0 .. (Len(Y) - 1) :
            (PyGet(X, t - 3) = 1 /\ PyGet(X, t - 8) = 0) => Y[t + 1] = 1

\* C4 witness: a returned pair with such a position.
C4_Witness ==
    /\ pc = "gen_data_returned"
    /\ size = 9
    /\ X[6] = 1 /\ X[1] = 0
    /\ Y[9] = 1

\* C8: the X and Y gen_data(size) returns have size elements each, all 0 or 1.
C8_ReturnedShape ==
    (pc = "gen_data_returned") =>
        /\ Len(X) = size
        /\ Len(Y) = size
        /\ \A t \in 1 .. Len(X) : X[t] \in {0, 1}
        /\ \A t \in 1 .. Len(Y) : Y[t] \in {0, 1}

\* C8 witness: gen_data(9) has returned, with both values in X and in Y.
C8_Witness ==
    /\ pc = "gen_data_returned"
    /\ size = 9
    /\ \E t \in 1 .. Len(X) : X[t] = 0
    /\ \E t \in 1 .. Len(X) : X[t] = 1
    /\ \E t \in 1 .. Len(Y) : Y[t] = 0
    /\ \E t \in 1 .. Len(Y) : Y[t] = 1

\* The sum over the given combinations of the lagged bits of the probability,
\* in quarters, of label 1.
RECURSIVE SumProbOne(_)
SumProbOne(combos) ==
    IF combos = {} THEN 0
    ELSE LET c == CHOOSE c \in combos : TRUE
         IN  ProbOne(ThresholdOf(c[1], c[2])) + SumProbOne(combos \ {c})

\* C9: over the four equally likely combinations of the lagged bits the
\* probability of label 1 is 5/8; given X[t-3] = 1 it is 7/8; given X[t-3] = 0
\* the probability of label 0 is 5/8.  The threshold of every position
\* gen_data fills is that of one of the combinations.
C9_Probabilities ==
    GenDataRan =>
        /\ threshold \in {ThresholdOf(a, b) : a \in Bit, b \in Bit}
        /\ 8 * SumProbOne(Bit \X Bit) = 5 * (4 * RandHigh)
        /\ 8 * SumProbOne({1} \X Bit) = 7 * (2 * RandHigh)
        /\ 8 * ((2 * RandHigh) - SumProbOne({0} \X Bit)) = 5 * (2 * RandHigh)

\* C9 witness: a position with X[t-3] = 0 and X[t-8] = 1, threshold 0.25,
\* labelled 1.
C9_Witness ==
    /\ pc = "gen_data_returned"
    /\ size = 9
    /\ X[6] = 0 /\ X[1] = 1
    /\ threshold = 1
    /\ Y[9] = 1

\* =============================================================== gen_batch
\* Where gen_batch has yielded at least one batch; the last one is batch bi - 1.
GenBatchYielded == (pc \in {"gen_batch", "gen_batch_exhausted"}) /\ (bi > 0)

\* C2 as stated: once gen_batch is exhausted the x batches hold len(raw_x)
\* elements in total (batches x batch_size x num_steps), the y batches
\* len(raw_y).
C2_CountPreserved ==
    (pc = "gen_batch_exhausted") =>
        /\ x_elems = Len(raw_x)
        /\ y_elems = Len(raw_y)
        /\ bi * batch_size * num_steps = Len(raw_x)

\* C2 amended: once gen_batch is exhausted the x batches hold
\* (len(raw_x) // batch_size // num_steps) * batch_size * num_steps elements in
\* total, which is len(raw_x) exactly when batch_size * num_steps divides
\* len(raw_x); likewise the y batches.
C2_CountTruncated ==
    (pc = "gen_batch_exhausted") =>
        LET whole == ((Len(raw_x) \div batch_size) \div num_steps) * batch_size * num_steps
        IN  /\ x_elems = whole
            /\ y_elems = whole
            /\ bi * batch_size * num_steps = whole
            /\ (whole = Len(raw_x)) <=> (Len(raw_x) % (batch_size * num_steps) = 0)
            /\ Len(raw_y) = Len(raw_x)

\* C2 witness: 8 raw elements in batches of 3 rows and 2 columns: one batch
\* of 6 elements is yielded and 2 elements are left out.
C2_Witness ==
    /\ pc = "gen_batch_exhausted"
    /\ Len(raw_x) = 8
    /\ batch_size = 3
    /\ num_steps = 2
    /\ bi = 1
    /\ x_elems = 6
    /\ y_elems = 6

\* rows x cols is the shape of the matrix m
HasShape(m, rows, cols) ==
    /\ Len(m) = rows
    /\ \A r \in 1 .. Len(m) : Len(m[r]) = cols

\* C5: every batch yielded has x and y of batch_size rows and num_steps
\* columns; no shorter last batch is yielded.
C5_FixedShape ==
    GenBatchYielded =>
        /\ HasShape(x, batch_size, num_steps)
        /\ HasShape(y, batch_size, num_steps)

\* C5 witness: 7 raw elements, 2 rows of 3, num_steps 2: one full batch was
\* yielded and the generator is exhausted with a column left over.
C5_Witness ==
    /\ pc = "gen_batch_exhausted"
    /\ Len(raw_x) = 7
    /\ batch_size = 2
    /\ num_steps = 2
    /\ bi = 1
    /\ HasShape(x, 2, 2)

\* C10: with P = len(raw_x) // batch_size, row r and column c of batch number
\* k hold raw_x[r*P + k*num_steps + c] in x and raw_y at that index in y.
C10_IndexMap ==
    GenBatchYielded =>
        LET k == bi - 1
            P == Len(raw_x) \div batch_size
        IN  /\ HasShape(x, batch_size, num_steps)
            /\ HasShape(y, batch_size, num_steps)
            /\ \A r \in 0 .. (batch_size - 1) :
                  \A c \in 0 .. (num_steps - 1) :
                     /\ x[r + 1][c + 1] = raw_x[(r * P + k * num_steps + c) + 1]
                     /\ y[r + 1][c + 1] = raw_y[(r * P + k * num_steps + c) + 1]

\* C10 witness: the second batch of 2 rows and 2 columns of 8 raw elements,
\* rows raw[2..3] and raw[6..7], whose raw_x is not constant.
C10_Witness ==
    /\ pc = "gen_batch"
    /\ Len(raw_x) = 8
    /\ batch_size = 2
    /\ num_steps = 2
    /\ bi = 2
    /\ x = <<SubSeq(raw_x, 3, 4), SubSeq(raw_x, 7, 8)>>
    /\ y = <<SubSeq(raw_y, 3, 4), SubSeq(raw_y, 7, 8)>>
    /\ raw_x[3] # raw_x[4]
    /\ raw_x[3] # raw_x[7]

\* =========================================================== train_network
\* A step of TrainStep that ran sess.run
RanStep == (pc = "train_epoch") /\ (step' = step + 1)

\* C6: the state fed at the first step of every epoch is all zeros, and the
\* state fed at every later step is the final_state the step before returned.
C6_StateCarried ==
    [][RanStep => (fed_state' = IF step = 0 THEN ZeroState ELSE final_state)]_vars

\* C6 witness: the second step of the second epoch was fed a state that is
\* not all zeros.
C6_Witness ==
    /\ pc = "train_epoch"
    /\ idx = 1
    /\ step = 2
    /\ fed_state # ZeroState

\* The number of steps of the epoch that is running
EpochSteps == (DefaultSize \div GlobalBatchSize) \div arg_num_steps

\* Where the running epoch has run all its steps
EpochOver == (pc = "train_epoch") /\ (arg_num_steps # 0) /\ (step >= EpochSteps)

\* a step appends one value exactly when its index is a positive multiple of 100
AppendsAtHundreds ==
    [][RanStep =>
         IF (step % 100 = 0) /\ (step > 0)
         THEN Len(training_losses') = Len(training_losses) + 1
         ELSE training_losses' = training_losses]_vars

\* C7 as stated: an epoch of E steps contributes floor((E-1)/100) values
C7_CountPerEpoch ==
    EpochOver => Len(training_losses) = (idx + 1) * ((EpochSteps - 1) \div 100)

\* an epoch of E >= 1 steps contributes floor((E-1)/100) values, 9 for 1000
\* steps, and an epoch of no steps none
CountPerNonEmptyEpoch ==
    EpochOver =>
        /\ (EpochSteps >= 1) =>
              Len(training_losses) = (idx + 1) * ((EpochSteps - 1) \div 100)
        /\ (EpochSteps = 0) => Len(training_losses) = 0
        /\ (EpochSteps = 1000) => Len(training_losses) = (idx + 1) * 9

\* C7 amended: a step appends a value exactly when its index within the epoch
\* is a positive multiple of 100; an epoch of E >= 1 steps contributes
\* floor((E-1)/100) values (9 for 1000 steps), an epoch of no steps none.
C7_ReportSteps == AppendsAtHundreds /\ [](CountPerNonEmptyEpoch)

\* C7 witness: the notebook's epoch of 1000 steps is over with 9 values.
C7_Witness ==
    /\ EpochOver
    /\ idx = 0
    /\ arg_num_steps = GlobalNumSteps
    /\ step = 1000
    /\ Len(training_losses) = 9

\* ================================================================ gen_data
\* sizes 1 to 7 raise at the first iteration
RaisesForSmallSizes ==
    [][(pc = "gen_data" /\ size \in 1 .. 7) =>
          (pc' = "gen_data_IndexError" /\ i = 0 /\ Y' = << >>)]_vars

\* size 0 and sizes of 8 or more never raise
NoRaiseOtherwise ==
    [][(pc = "gen_data" /\ (size = 0 \/ size >= 8)) => (pc' # "gen_data_IndexError")]_vars

\* gen_data is left by raising for sizes 1 to 7, where X[i-8] at i = 0 is out
\* of range, and by returning for the other sizes
LeftAsTheSizeSays ==
    /\ (pc = "gen_data_IndexError") =>
          (size \in 1 .. 7 /\ i = 0 /\ Y = << >> /\ ~(-Len(X) <= 0 - 8))
    /\ (pc = "gen_data_returned") => (size = 0 \/ size >= 8)

\* C15: gen_data(size) raises IndexError and returns no data for every size
\* from 1 to 7, and returns normally for size 0 and every size of 8 or more.
C15_SmallSizesRaise == RaisesForSmallSizes /\ NoRaiseOtherwise /\ [](LeftAsTheSizeSays)

\* C15 witness: gen_data(7) has raised at i = 0 after reading X[-3] = X[4].
C15_Witness ==
    /\ pc = "gen_data_IndexError"
    /\ size = 7
    /\ i = 0
    /\ near_pos = 4
    /\ Y = << >>

\* =========================================================== train_network
\* C12: every value appended to training_losses is the mean of exactly 100
\* per-step losses: training_loss, which is divided by 100, sums the
\* total_loss of exactly 100 steps.
C12_MeanOfHundred ==
    \A k \in 1 .. Len(training_losses) :
        /\ training_losses[k].div = 100
        /\ Cardinality(training_losses[k].sum) = 100

\* C13: the value reported at step s is the average of the loss over the
\* last 250 steps, as the message printed with it says.
C13_MeanOfLast250 ==
    \A k \in 1 .. Len(training_losses) :
        /\ training_losses[k].div = 250
        /\ Cardinality(training_losses[k].sum) = 250

\* train_network was called with a num_steps or a state_size that is not the
\* one the graph was built with, and its first epoch yields a batch
MismatchedCall ==
    /\ pc \in {"train_network", "train_epoch", "train_network_ValueError",
               "train_network_ZeroDivisionError", "train_network_returned"}
    /\ (arg_num_steps # g_num_steps) \/ (arg_state_size # GlobalStateSize)
    /\ arg_num_epochs >= 1
    /\ arg_num_steps # 0
    /\ (DefaultSize \div GlobalBatchSize) \div arg_num_steps >= 1

\* the first training step of such a call fails with the shape error
FirstStepFails ==
    [][(MismatchedCall /\ pc = "train_epoch") =>
          (pc' = "train_network_ValueError" /\ idx = 0 /\ step = 0)]_vars

\* such a call appends nothing and does not return
NothingAppendedOrReturned ==
    MismatchedCall =>
        /\ training_losses = << >>
        /\ pc # "train_network_returned"
        /\ pc # "train_network_ZeroDivisionError"
        /\ idx = 0

\* C14: called with a num_steps or a state_size that differs from the graph's
\* (the default state_size = 4 against 8 in particular), with a first epoch
\* that yields a batch, train_network fails at its first training step with
\* the shape error, has appended nothing and returns no list.
C14_ShapeMismatchFails == FirstStepFails /\ [](NothingAppendedOrReturned)

\* C14 witness: the call with the graph's num_steps and the default
\* state_size = 4 has failed at its first step.
C14_Witness ==
    /\ pc = "train_network_ValueError"
    /\ arg_num_steps = g_num_steps
    /\ g_num_steps = GlobalNumSteps
    /\ arg_state_size = DefaultStateSize
    /\ arg_num_epochs >= 1
    /\ training_losses = << >>

\* =============================================================== gen_batch
\* the raw positions 0 .. n-1 in place of the raw values
Positions(n) == [j \in 1 .. n |-> j - 1]

\* the rows of a matrix one after the other
RECURSIVE FlattenRows(_)
FlattenRows(m) == IF m = << >> THEN << >> ELSE Head(m) \o FlattenRows(Tail(m))

\* the raw positions batch number k takes its elements from, row after row:
\* gen_batch's slicing applied to the positions
BatchPositions(k) ==
    FlattenRows(BatchOf(DataMatrix(Positions(Len(raw_x)), batch_size), k, num_steps))

\* the raw positions of all the batches yielded so far
RECURSIVE PositionsUpTo(_)
PositionsUpTo(k) == IF k <= 0 THEN << >> ELSE PositionsUpTo(k - 1) \o BatchPositions(k - 1)

\* the batch yielded last holds the raw values at its positions
LastBatchIsAtItsPositions ==
    GenBatchYielded =>
        /\ FlattenRows(x) = [p \in 1 .. Len(BatchPositions(bi - 1)) |->
                                raw_x[BatchPositions(bi - 1)[p] + 1]]
        /\ FlattenRows(y) = [p \in 1 .. Len(BatchPositions(bi - 1)) |->
                                raw_y[BatchPositions(bi - 1)[p] + 1]]

\* where batch_size * num_steps divides the length, as 200 * 5 divides
\* 1000000, an epoch is length / (batch_size * num_steps) batches and every
\* raw position is at exactly one place of exactly one batch
EveryPositionOnce ==
    (pc = "gen_batch_exhausted" /\ Len(raw_x) % (batch_size * num_steps) = 0) =>
        LET seen == PositionsUpTo(bi)
        IN  /\ bi * (batch_size * num_steps) = Len(raw_x)
            /\ Len(seen) = Len(raw_x)
            /\ \A j \in 0 .. (Len(raw_x) - 1) :
                  Cardinality({p \in 1 .. Len(seen) : seen[p] = j}) = 1

\* the notebook's configuration: 1000 batches of 200 * 5 places, 1000000 places
\* for 1000000 positions, and train_network's epoch takes 1000 steps
NotebookEpoch ==
    /\ (DefaultSize % (GlobalBatchSize * GlobalNumSteps)) = 0
    /\ EpochSize(DefaultSize, GlobalBatchSize, GlobalNumSteps) = 1000
    /\ 1000 * (GlobalBatchSize * GlobalNumSteps) = DefaultSize
    /\ (pc = "train_epoch" /\ arg_num_steps = GlobalNumSteps) =>
          /\ step <= 1000
          /\ (step < 1000) => ENABLED TrainStep
          /\ (step = 1000) => ~ENABLED TrainStep

\* C11: with the notebook's configuration gen_batch yields exactly 1000
\* batches per epoch and every raw position is at exactly one place of exactly
\* one batch.
C11_NotebookCoverage ==
    /\ NotebookEpoch
    /\ EveryPositionOnce
    /\ LastBatchIsAtItsPositions

\* C11 witness: 8 raw elements in batches of 2 rows and 2 columns: two
\* batches were yielded, the second from the positions 2, 3, 6, 7.
C11_Witness ==
    /\ pc = "gen_batch_exhausted"
    /\ Len(raw_x) = 8
    /\ batch_size = 2
    /\ num_steps = 2
    /\ bi = 2
    /\ BatchPositions(1) = <<2, 3, 6, 7>>
    /\ PositionsUpTo(bi) = <<0, 1, 4, 5, 2, 3, 6, 7>>

====
